---- MODULE Spec2Model ----
(***************************************************************************)
(* Model of update_crm_names_windows.py: the token manager                 *)
(* (ZohoTokenManager) and the per-record sync engine (CRMNameUpdater).     *)
(* One action is the code between two blocking network round trips.        *)
(***************************************************************************)
EXTENDS Integers, Sequences, FiniteSets, TLC

\* ------------------------------------------------------------------ bounds
MaxRecords == 2     \* rows of the spreadsheet
MaxTicks == 1       \* how often the wall clock advances
MaxRuns == 2        \* how often the program is run, one run after the other

\* ------------------------------------------------------- program constants
ExpiryBuffer == 60          \* "- 60" in refresh_access_token
DefaultExpiresIn == 3600    \* token_data.get('expires_in', 3600)
DefaultExpiresAt == 0       \* int(os.getenv('ZOHO_TOKEN_EXPIRES_AT', 0))
SaveEvery == 10             \* "if i % 10 == 0" in process_all_vendors

\* os.getenv('ZOHO_API_DOMAIN', 'https://www.zohoapis.com')
DefaultApiDomain == "https://www.zohoapis.com"

\* the sheet main loads when no --url is given: not empty, so true in
\* "elif DEFAULT_SHEET_URL"
DEFAULT_SHEET_URL == "https://docs.google.com/spreadsheets/d/.../export?format=csv"

\* seconds the wall clock advances by in one step
ClockStep == ExpiryBuffer

\* -------------------------------------------------------------- the values
None == "None"
\* None where a name (a sequence of characters) is expected
NoName == <<"None">>

\* A name is a string, held as the sequence of its characters.
NameEmpty == << >>
NameA == <<"A">>
NameAB == <<"A", " ", "B">>
Unknown == <<"U", "n", "k", "n", "o", "w", "n">>

\* The Name column of the rows (stripped by the loader, maybe empty).
DesiredNames == {NameEmpty, NameA, NameAB}

\* Lifetimes the token endpoint answers with (a missing one reads as the default).
ExpiresInValues == {ExpiryBuffer, DefaultExpiresIn}

\* A file is the sequence of its pieces of text; "\n" ends a line.
CredentialLines ==
  << "ZOHO_CLIENT_ID", "=", "cid", "\n",
     "ZOHO_CLIENT_SECRET", "=", "secret", "\n",
     "ZOHO_REFRESH_TOKEN", "=", "rtoken", "\n" >>

AccessTokenLine(token) == << "ZOHO_ACCESS_TOKEN", "=", token, "\n" >>

ExpiresAtLine(expires_at) == << "ZOHO_TOKEN_EXPIRES_AT", "=", ToString(expires_at), "\n" >>

\* The credential files a run may start from: one without the two token keys
\* (the token manager has never refreshed), one whose token expires during the
\* run, and one whose token outlives the run.
EnvFiles ==
  { CredentialLines,
    CredentialLines \o AccessTokenLine("tok0") \o ExpiresAtLine(ClockStep \div 2),
    CredentialLines \o AccessTokenLine("tok0")
      \o ExpiresAtLine(DefaultExpiresIn - ExpiryBuffer) }

\* The answers of the CRM to one HTTP request, by what make_api_call tells apart.
Responses ==
  { "ok",        \* 2xx, JSON body: the search result / the update with code SUCCESS
    "failcode",  \* 2xx, JSON body whose data[0] carries no success code
    "nodata",    \* 2xx, JSON object without a data list
    "empty",     \* 2xx, empty body
    "nonjson",   \* 2xx, body that is not JSON
    "http401",
    "http500",   \* any other non-2xx status
    "neterr" }   \* requests raised (connection error)

\* ------------------------------------------------------------ str.split()
RECURSIVE SplitFrom(_, _, _)
\* name_parts = new_name.strip().split(): the maximal runs of non-blank characters.
SplitFrom(s, k, cur) ==
  IF k > Len(s)
    THEN IF cur = << >> THEN << >> ELSE <<cur>>
    ELSE IF s[k] = " "
           THEN IF cur = << >> THEN SplitFrom(s, k + 1, << >>)
                               ELSE <<cur>> \o SplitFrom(s, k + 1, << >>)
           ELSE SplitFrom(s, k + 1, Append(cur, s[k]))

Split(s) == SplitFrom(s, 1, << >>)

RECURSIVE JoinFrom(_, _)
\* " ".join(parts[k:])
JoinFrom(parts, k) ==
  IF k > Len(parts) THEN << >>
  ELSE IF k = Len(parts) THEN parts[k]
  ELSE parts[k] \o <<" ">> \o JoinFrom(parts, k + 1)

\* a first name cut down to its initial
FirstNameInitial(parts) == << parts[1][1] >>

\* first_name of update_contact_name (name_parts is not empty)
FirstName(parts) == parts[1]

\* a last name that keeps the second part only
LastNameSecondOnly(parts) == IF Len(parts) = 1 THEN << >> ELSE parts[2]

\* last_name of update_contact_name
LastName(parts) == IF Len(parts) = 1 THEN << >> ELSE JoinFrom(parts, 2)

\* ------------------------------------------------------- the text of files
RECURSIVE ReadLinesFrom(_, _, _)
\* f.readlines(): the lines of the file, each with the "\n" that ends it
ReadLinesFrom(f, k, cur) ==
  IF k > Len(f)
    THEN IF cur = << >> THEN << >> ELSE <<cur>>
    ELSE IF f[k] = "\n"
           THEN <<Append(cur, f[k])>> \o ReadLinesFrom(f, k + 1, << >>)
           ELSE ReadLinesFrom(f, k + 1, Append(cur, f[k]))

ReadLines(f) == ReadLinesFrom(f, 1, << >>)

RECURSIVE WriteLinesFrom(_, _)
\* f.writelines(lines), from line k on
WriteLinesFrom(lines, k) ==
  IF k > Len(lines) THEN << >> ELSE lines[k] \o WriteLinesFrom(lines, k + 1)

WriteLines(lines) == WriteLinesFrom(lines, 1)

\* line.startswith(key + '=')
StartsWithKey(line, key) == Len(line) >= 2 /\ line[1] = key /\ line[2] = "="

\* line.strip(): the model's lines carry no blanks but the "\n" at the end
Strip(line) ==
  IF line # << >> /\ line[Len(line)] = "\n" THEN SubSeq(line, 1, Len(line) - 1) ELSE line

\* '=' in line and not line.strip().startswith('#')
IsAssignment(line) ==
  /\ \E k \in DOMAIN line : line[k] = "="
  /\ ~(Strip(line) # << >> /\ Strip(line)[1] = "#")

\* key, value = line.strip().split('=', 1)
SplitAssignment(line) ==
  LET t == Strip(line)
      at == CHOOSE k \in DOMAIN t : t[k] = "=" /\ \A m \in 1 .. (k - 1) : t[m] # "="
  IN [key |-> SubSeq(t, 1, at - 1), value |-> SubSeq(t, at + 1, Len(t))]

\* os.getenv(key) after load_credentials read the file: the value of the last
\* line that assigns the key, as a sequence with that value, or the empty sequence
Getenv(f, key) ==
  LET lines == ReadLines(f)
      hits == { k \in DOMAIN lines :
                  IsAssignment(lines[k]) /\ SplitAssignment(lines[k]).key = <<key>> }
  IN IF hits = {} THEN << >>
     ELSE << SplitAssignment(lines[CHOOSE k \in hits : \A m \in hits : m <= k]).value >>

\* the expiry times a file of a run can hold
ExpiryTimes ==
  { ClockStep \div 2, DefaultExpiresIn - ExpiryBuffer, DefaultExpiresAt }
    \cup { t * ClockStep + e - ExpiryBuffer : t \in 0 .. MaxTicks, e \in ExpiresInValues }

\* int(text)
ParseInt(text) == CHOOSE n \in ExpiryTimes : <<ToString(n)>> = text

\* os.getenv(key, default) for a value that is text
GetenvOr(f, key, default) ==
  IF Getenv(f, key) = << >> THEN default ELSE Getenv(f, key)[1]

\* load_credentials: the credentials and the token state the file gives; a
\* value is the sequence of its pieces of text, and None where the key is missing
LoadCredentials(f) ==
  [client_id |-> GetenvOr(f, "ZOHO_CLIENT_ID", NoName),
   client_secret |-> GetenvOr(f, "ZOHO_CLIENT_SECRET", NoName),
   refresh_token |-> GetenvOr(f, "ZOHO_REFRESH_TOKEN", NoName),
   api_domain |-> GetenvOr(f, "ZOHO_API_DOMAIN", << DefaultApiDomain >>),
   access_token |-> IF Getenv(f, "ZOHO_ACCESS_TOKEN") = << >> THEN None
                    ELSE IF Len(Getenv(f, "ZOHO_ACCESS_TOKEN")[1]) = 1
                      THEN Getenv(f, "ZOHO_ACCESS_TOKEN")[1][1]
                      ELSE "garbled",
   token_expires_at |-> IF Getenv(f, "ZOHO_TOKEN_EXPIRES_AT") = << >> THEN DefaultExpiresAt
                        ELSE ParseInt(Getenv(f, "ZOHO_TOKEN_EXPIRES_AT")[1])]

\* all([self.client_id, self.client_secret, self.refresh_token]): None and the
\* empty string are false
CredentialsComplete(c) ==
  \A v \in {c.client_id, c.client_secret, c.refresh_token} : v # NoName /\ v # << >>

\* the for loop of update_env_file
ReplaceTokenLine(line, token, expires_at) ==
  IF StartsWithKey(line, "ZOHO_ACCESS_TOKEN") THEN AccessTokenLine(token)
  ELSE IF StartsWithKey(line, "ZOHO_TOKEN_EXPIRES_AT") THEN ExpiresAtLine(expires_at)
  ELSE line

\* update_env_file after lines = f.readlines(): the text it writes back
RewriteLines(lines, token, expires_at) ==
  LET replaced == [k \in DOMAIN lines |-> ReplaceTokenLine(lines[k], token, expires_at)]
      token_updated == \E k \in DOMAIN lines : StartsWithKey(lines[k], "ZOHO_ACCESS_TOKEN")
      expires_updated == \E k \in DOMAIN lines : StartsWithKey(lines[k], "ZOHO_TOKEN_EXPIRES_AT")
  IN WriteLines(replaced
                  \o (IF token_updated THEN << >> ELSE <<AccessTokenLine(token)>>)
                  \o (IF expires_updated THEN << >> ELSE <<ExpiresAtLine(expires_at)>>))

\* update_env_file: the file is read once, and then written
UpdateEnvFile(f, token, expires_at) ==
  CHOOSE text \in { RewriteLines(lines, token, expires_at) : lines \in {ReadLines(f)} } : TRUE

\* ------------------------------------------------------------------ state
VARIABLES
  env_file,          \* the text of ~/.zoho_env
  vendor_data,       \* self.vendor_data: the rows, in the order of the sheet
  remote,            \* the CRM: remote[email] is the data list a search answers
  now,               \* int(time.time())
  access_token,      \* ZohoTokenManager.access_token
  token_expires_at,  \* ZohoTokenManager.token_expires_at
  results,           \* CRMNameUpdater.results
  saved,             \* the vendors_with_status_<time>.csv files, by their time
  summaries,         \* the name_update_results_<time>.json files, by their time
  run,               \* the number of this run of the program
  previous,          \* the results of the run before this one (history)
  i,                 \* the loop index of process_all_vendors
  pc,                \* where the program stands
  result,            \* the result dict of the process_email in progress
  call,              \* the make_api_call in progress
  rec,               \* what happened to the record in progress, or to the one
                     \* the last step ended (history)
  lastOp,            \* the answer the last step received (history)
  refreshFailed,     \* a refresh has failed in this run (history)
  args,              \* the command line main parsed
  csv_file,          \* the text of the local CSV file --csv names
  sent,              \* the kinds of network calls this run has sent (history)
  ended              \* how the process ended, if it has

vars == <<env_file, vendor_data, remote, now, access_token, token_expires_at, results,
          saved, summaries, run, previous, i, pc, result, call, rec, lastOp,
          refreshFailed, args, csv_file, sent, ended>>

\* a path where no file is
NoFile == << None >>

\* os.path.exists, and open() that does not raise FileNotFoundError
Exists(f) == f # NoFile

\* --all with neither --url, --email nor --name
BatchArgs == [url |-> FALSE, email |-> 0, name |-> NoName, all |-> TRUE]

\* no file is where --csv (or its default) points
CsvMissing == [exists |-> FALSE, rows |-> << >>]

\* the process is running
NotEnded == [why |-> "running", code |-> -1]

\* the process has ended: sys.exit(code), or main returned (code 0)
Ended(why, code) == [why |-> why, code |-> code]

\* the network call that is waiting for its answer at p, if one is
InFlight(p, c) ==
  CASE p \in {"request", "retry"} -> {c.kind}
    [] p \in {"refresh_expired", "refresh_401"} -> {"refresh"}
    [] p = "fetch" -> {"fetch"}
    [] OTHER -> {}

Emails == 1 .. MaxRecords

\* the id the CRM gave the contact of an email
ContactId(email) == ToString(email)

\* The contacts the CRM may hold for an email: none, one with a name, one without.
RemoteKinds(email) ==
  << << >>,
     << [id |-> ContactId(email), Full_Name |-> NameA] >>,
     << [id |-> ContactId(email), Full_Name |-> NameAB] >>,
     << [id |-> ContactId(email)] >> >>

\* The CRM contents a run may start from.
RemoteScenarios ==
  { [e \in Emails |-> RemoteKinds(e)[((e + k) % 4) + 1]] : k \in 0 .. 3 }

\* The sheets a run may load: every row has its own email (a dict key).
VendorLists ==
  UNION { [1 .. n -> DesiredNames] : n \in 0 .. MaxRecords }

VendorInfo(email) == [name |-> vendor_data[email]]

NoCall == [kind |-> "none"]
NoResult == [email |-> 0]
NoRec == [search |-> "none", update |-> "none", calls |-> << >>, errsAtStart |-> 0]
NoOp == [op |-> "none"]

\* --------------------------------------------------------- ZohoTokenManager
\* is_token_expired comparing with > for >=
IsTokenExpiredStrict(current_time, expires_at) == current_time > expires_at

\* is_token_expired
IsTokenExpired(current_time, expires_at) == current_time >= expires_at

\* the expiry computed without the clock
NewExpiresAtNoClock(current_time, expires_in) == expires_in - ExpiryBuffer

\* self.token_expires_at = int(time.time()) + expires_in - 60
NewExpiresAt(current_time, expires_in) == current_time + expires_in - ExpiryBuffer

\* what the token endpoint answers to one refresh
RefreshAnswers ==
  { [ok |-> TRUE, expires_in |-> e] : e \in ExpiresInValues }
    \cup { [ok |-> FALSE, why |-> w] : w \in {"rejected", "neterr"} }

\* token_data['access_token']
NewToken == "tok1"

\* the exception a failed refresh raises, as the caller of make_api_call sees it
RefreshRaises(a) ==
  [raised |-> TRUE, cause |-> IF a.why = "rejected" THEN "refresh" ELSE "network"]

\* a test that finds no endpoint to be a search
IsSearchEndpointNever(kind) == FALSE

\* '/search' in endpoint
IsSearchEndpoint(kind) == kind = "search"

\* response.status_code
HttpStatus(resp) ==
  CASE resp = "http401" -> 401
    [] resp = "http500" -> 500
    [] OTHER -> 200

\* The JSON body of a 2xx answer: the CRM answers a search with the contacts it
\* holds and an update with the code of its first element.
JsonBody(kind, resp, email) ==
  CASE resp = "nodata" -> [message |-> "no data"]
    [] resp = "failcode" -> [data |-> << [code |-> "INVALID_DATA"] >>]
    [] OTHER -> IF IsSearchEndpoint(kind)
                  THEN [data |-> remote[email]]
                  ELSE [data |-> << [code |-> "SUCCESS"] >>]

\* make_api_call from response.raise_for_status() on: what the call returns or raises
ApiReturn(kind, resp, email) ==
  IF resp = "neterr" THEN [raised |-> TRUE, cause |-> "network"]
  ELSE IF HttpStatus(resp) >= 400 THEN [raised |-> TRUE, cause |-> "http"]
  ELSE IF resp = "empty" THEN [raised |-> FALSE, json |-> [data |-> << >>]]
  ELSE IF resp = "nonjson"
         THEN IF IsSearchEndpoint(kind)
                THEN [raised |-> FALSE, json |-> [data |-> << >>]]
                ELSE [raised |-> TRUE, cause |-> "json"]
  ELSE [raised |-> FALSE, json |-> JsonBody(kind, resp, email)]

\* The CRM after it answered a request: an update it accepted sets the name of
\* the contact to the first and last name it was sent.
ServerApplies(kind, resp, email, put) ==
  IF kind = "update" /\ resp = "ok" /\ remote[email] # << >>
    THEN [remote EXCEPT ![email] =
            << [id |-> put[1].id,
                Full_Name |-> IF put[1].Last_Name = << >>
                                THEN put[1].First_Name
                                ELSE put[1].First_Name \o <<" ">> \o put[1].Last_Name] >>]
    ELSE remote

\* ---------------------------------------------------------- CRMNameUpdater
\* response.get('data') and len(response['data']) > 0
HasData(json) == "data" \in DOMAIN json /\ Len(json.data) > 0

\* a name that ignores what the search returned
FullNameUnknown(contact) == Unknown

\* contact.get('Full_Name', 'Unknown')
FullName(contact) ==
  IF "Full_Name" \in DOMAIN contact THEN contact.Full_Name ELSE Unknown

\* self.results['errors'].append(error_msg): a message is held as the operation
\* and the email or contact id it names, without the text of the exception
AddError(res, msg) == [res EXCEPT !.errors = Append(@, msg)]

\* a status that does not look at the names
StatusIgnoresName(rslt, ok) == IF ok THEN "updated" ELSE "error"

\* result['status'] of process_email, from what update_contact_name returned
Status(rslt, ok) ==
  IF ok
    THEN IF rslt.current_name # rslt.updated_name THEN "updated" ELSE "already_correct"
    ELSE "error"

\* the Update_Status and Previous_Name columns of save_csv_with_status
CsvRow(email, processed) ==
  LET hits == { k \in DOMAIN processed : processed[k].email = email } IN
  IF hits = {} THEN [email |-> email, Update_Status |-> "NOT_PROCESSED", Previous_Name |-> << >>]
  ELSE LET c == processed[CHOOSE k \in hits : \A m \in hits : m <= k] IN
       CASE c.status = "updated" ->
              [email |-> email, Update_Status |-> "UPDATED", Previous_Name |-> c.current_name]
         [] c.status = "already_correct" ->
              [email |-> email, Update_Status |-> "NO_CHANGE_NEEDED", Previous_Name |-> << >>]
         [] c.status = "not_found" ->
              [email |-> email, Update_Status |-> "NOT_FOUND_IN_CRM", Previous_Name |-> << >>]
         [] OTHER ->
              [email |-> email, Update_Status |-> "ERROR", Previous_Name |-> c.current_name]

\* open(name, 'w') and the write, for a name that ends in the time: a file
\* written in the same second is overwritten
WriteFile(files, time, content) ==
  [t \in DOMAIN files \cup {time} |-> IF t = time THEN content ELSE files[t]]

\* save_csv_with_status: the files written so far, with the one this call writes
SaveCsv(files, res) ==
  IF res.processed_contacts = << >> THEN files
  ELSE WriteFile(files, now,
                 [e \in DOMAIN vendor_data |-> CsvRow(e, res.processed_contacts)])

\* print_summary: json.dump(self.results, f)
SaveSummary(files, res) == WriteFile(files, now, res)

\* self.results of a CRMNameUpdater just made
NewResults(vendors) ==
  [total_vendors |-> Len(vendors), contacts_found |-> 0, names_updated |-> 0,
   already_correct |-> 0, errors |-> << >>, processed_contacts |-> << >>]

\* make_api_call up to its first blocking request: get_valid_token either sends
\* the refresh or hands out the token, and then the request is sent
BeginCall(kind, put) ==
  LET expired == IsTokenExpired(now, token_expires_at) IN
  /\ call' = [kind |-> kind, put |-> put, expired |-> expired,
              refreshes |-> IF expired THEN 1 ELSE 0,
              requests |-> IF expired THEN 0 ELSE 1,
              first401 |-> FALSE, retry401 |-> FALSE, raised |-> FALSE]
  /\ pc' = IF expired THEN "refresh_expired" ELSE "request"

\* an outcome that takes the place of the first one
ReplaceOutcome(processed_contacts, rslt) ==
  IF processed_contacts = << >> THEN << rslt >>
  ELSE << rslt >> \o Tail(processed_contacts)

\* self.results['processed_contacts'].append(result)
AppendOutcome(processed_contacts, rslt) == Append(processed_contacts, rslt)

\* a loop that never saves its progress
SaveDueNever(index) == FALSE

\* if i % 10 == 0
SaveDue(index) == index % SaveEvery = 0

\* process_email returns; process_all_vendors appends the result and, every
\* tenth record, saves the progress; process_single_email appends the result
EndRecord(res, rslt, status, r) ==
  LET res1 == [res EXCEPT !.processed_contacts =
                 AppendOutcome(@, [rslt EXCEPT !.status = status])] IN
  /\ results' = res1
  /\ saved' = IF args.email = 0 /\ SaveDue(i) THEN SaveCsv(saved, res1) ELSE saved
  /\ rec' = r
  /\ result' = NoResult
  /\ call' = NoCall
  /\ pc' = IF args.email = 0 THEN "loop" ELSE "single_done"

\* a guard that never finds the name correct
NameIsCorrectNever(current_name, new_name) == FALSE

\* if current_name == new_name: the comparison of two Python strings
NameIsCorrect(current_name, new_name) == current_name = new_name

\* update_contact_name up to its make_api_call, for the contact the search found
UpdateContactName(res, rslt, r) ==
  IF NameIsCorrect(rslt.current_name, rslt.updated_name)
    THEN EndRecord([res EXCEPT !.already_correct = @ + 1], rslt,
                   Status(rslt, TRUE), [r EXCEPT !.update = "equal"])
    ELSE LET name_parts == Split(rslt.updated_name) IN
         IF name_parts = << >>
           THEN \* name_parts[0] raises IndexError
                EndRecord(AddError(res, [op |-> "update", key |-> rslt.contact_id]),
                          rslt, Status(rslt, FALSE), [r EXCEPT !.update = "raised"])
           ELSE /\ BeginCall("update", << [id |-> rslt.contact_id,
                                           First_Name |-> FirstName(name_parts),
                                           Last_Name |-> LastName(name_parts)] >>)
                /\ results' = res
                /\ result' = rslt
                /\ rec' = r
                /\ saved' = saved

\* a search that reports a message also when nothing was raised
NoteSearchErrorAlways(res, raised, email) ==
  AddError(res, [op |-> "search", key |-> ToString(email)])

\* the except branch of search_contact_by_email
NoteSearchError(res, raised, email) ==
  IF raised THEN AddError(res, [op |-> "search", key |-> ToString(email)]) ELSE res

\* search_contact_by_email after its make_api_call, and process_email after it
AfterSearch(ret, c) ==
  LET \* contact['id'] of a contact without an id raises KeyError inside the try
      keyError == ~ret.raised /\ HasData(ret.json) /\ "id" \notin DOMAIN ret.json.data[1]
      raised == ret.raised \/ keyError
      found == IF ~raised /\ HasData(ret.json) THEN << ret.json.data[1] >> ELSE << >>
      res1 == NoteSearchError(results, raised, result.email)
      rec1 == [rec EXCEPT !.search = IF raised THEN "raised"
                                     ELSE IF found = << >> THEN "empty" ELSE "found",
                          !.calls = Append(@, c)]
  IN IF found = << >>
       THEN EndRecord(res1, result, result.status, rec1)
       ELSE UpdateContactName(
              [res1 EXCEPT !.contacts_found = @ + 1],
              [result EXCEPT !.current_name = FullName(found[1]),
                             !.contact_id = found[1].id,
                             !.updated_name = result.vendor_name],
              rec1)

\* the success test without the look at the code
UpdateSucceededAnyData(json) == HasData(json)

\* if response['data'][0].get('code') == 'SUCCESS'
UpdateSucceeded(json) ==
  /\ HasData(json)
  /\ "code" \in DOMAIN json.data[1]
  /\ json.data[1].code = "SUCCESS"

\* update_contact_name after its make_api_call, and process_email after it
AfterUpdate(ret, c) ==
  LET rec1 == [rec EXCEPT !.calls = Append(@, c)] IN
  IF ret.raised
    THEN EndRecord(AddError(results, [op |-> "update", key |-> result.contact_id]),
                   result, Status(result, FALSE), [rec1 EXCEPT !.update = "raised"])
    ELSE IF UpdateSucceeded(ret.json)
      THEN EndRecord([results EXCEPT !.names_updated = @ + 1],
                     result, Status(result, TRUE), [rec1 EXCEPT !.update = "success"])
      ELSE EndRecord(results, result, Status(result, FALSE),
                     [rec1 EXCEPT !.update = "failure"])

\* "except requests.exceptions.RequestException" in the place of "except Exception"
CaughtRequestErrorsOnly(ret) == ret.cause \in {"network", "http"}

\* a bare "except:" in the place of "except Exception"
CaughtEverything(ret) == TRUE

\* "except Exception" of search_contact_by_email and of update_contact_name:
\* whatever make_api_call raises is an Exception
CaughtAtRecord(ret) == ret.cause \in {"refresh", "network", "http", "json"}

\* An exception nobody catches in the loop reaches "except Exception" of main,
\* which prints it; the process ends.
Escapes ==
  /\ pc' = "done"
  /\ result' = NoResult
  /\ call' = NoCall
  /\ rec' = NoRec
  /\ UNCHANGED <<results, saved>>

\* make_api_call returns or raises: its caller goes on
CallEnds(ret, c) ==
  IF ret.raised /\ ~CaughtAtRecord(ret)
    THEN Escapes
    ELSE IF c.kind = "search"
      THEN AfterSearch(ret, [c EXCEPT !.raised = ret.raised])
      ELSE AfterUpdate(ret, [c EXCEPT !.raised = ret.raised])

\* ----------------------------------------------------------------- actions
Init ==
  /\ vendor_data \in VendorLists
  /\ remote \in RemoteScenarios
  /\ now = 0
  /\ env_file \in EnvFiles
  /\ access_token = LoadCredentials(env_file).access_token
  /\ token_expires_at = LoadCredentials(env_file).token_expires_at
  /\ results = NewResults(vendor_data)
  /\ saved = << >>
  /\ summaries = << >>
  /\ run = 1
  /\ previous = NewResults(<< >>)
  /\ i = 0
  /\ pc = "loop"
  /\ result = NoResult
  /\ call = NoCall
  /\ rec = NoRec
  /\ lastOp = NoOp
  /\ refreshFailed = FALSE
  /\ args = BatchArgs
  /\ csv_file = CsvMissing
  /\ sent = {"fetch"}
  /\ ended = NotEnded

\* the wall clock advances
Tick ==
  /\ pc # "done"
  /\ now + ClockStep <= MaxTicks * ClockStep
  /\ now' = now + ClockStep
  /\ lastOp' = NoOp
  /\ rec' = IF pc = "loop" THEN NoRec ELSE rec
  /\ UNCHANGED <<env_file, vendor_data, remote, access_token, token_expires_at,
                 results, saved, summaries, run, previous, i, pc, result, call,
                 refreshFailed, args, csv_file, sent, ended>>

\* process_all_vendors takes the next row: process_email up to the search request
StartRecord ==
  /\ pc = "loop"
  /\ i < Len(vendor_data)
  /\ i' = i + 1
  /\ result' = [email |-> i + 1, vendor_name |-> vendor_data[i + 1],
                status |-> "not_found", current_name |-> NoName,
                updated_name |-> NoName, contact_id |-> None]
  /\ rec' = [NoRec EXCEPT !.errsAtStart = Len(results.errors)]
  /\ BeginCall("search", << >>)
  /\ lastOp' = NoOp
  /\ sent' = sent \cup InFlight(pc', call')
  /\ UNCHANGED <<env_file, vendor_data, remote, now, access_token, token_expires_at,
                 results, saved, summaries, run, previous, refreshFailed, args,
                 csv_file, ended>>

\* a refresh that forgets the token it had when it is rejected
RefreshRejectedForgets ==
  /\ access_token' = None
  /\ token_expires_at' = DefaultExpiresAt
  /\ env_file' = env_file

\* the else branch of refresh_access_token, and requests.post raising: nothing
\* is assigned and update_env_file is not called before the exception
RefreshRejected == UNCHANGED <<access_token, token_expires_at, env_file>>

\* refresh_access_token from the answer of the token endpoint on; after a
\* refresh that succeeded make_api_call sends its request
Refresh(trigger, a) ==
  /\ lastOp' = [op |-> "refresh", ok |-> a.ok, trigger |-> trigger,
                expires_in |-> IF a.ok THEN a.expires_in ELSE 0,
                old_expires_at |-> token_expires_at]
  /\ IF a.ok
       THEN /\ access_token' = NewToken
            /\ token_expires_at' = NewExpiresAt(now, a.expires_in)
            /\ env_file' = UpdateEnvFile(env_file, access_token', token_expires_at')
            /\ call' = [call EXCEPT !.requests = @ + 1]
            /\ pc' = IF trigger = "expired" THEN "request" ELSE "retry"
            /\ UNCHANGED <<results, saved, result, rec>>
       ELSE /\ RefreshRejected
            /\ CallEnds(RefreshRaises(a), call)
  /\ refreshFailed' = (refreshFailed \/ ~a.ok)
  /\ sent' = sent \cup InFlight(pc', call')
  /\ ended' = IF pc' = "done" THEN Ended("error", 0) ELSE ended
  /\ UNCHANGED <<vendor_data, remote, now, i, summaries, run, previous, args, csv_file>>

\* the token endpoint answers the refresh get_valid_token sent
RefreshExpired ==
  /\ pc = "refresh_expired"
  /\ \E a \in RefreshAnswers : Refresh("expired", a)

\* the 401 handling in a loop: a retried request answered 401 is handled too
Handles401Always(resp, isRetry) == HttpStatus(resp) = 401

\* if response.status_code == 401, which only the first request comes to
Handles401(resp, isRetry) == ~isRetry /\ HttpStatus(resp) = 401

\* make_api_call from the answer to a request on
Answered(resp, isRetry) ==
  /\ lastOp' = [op |-> "request", resp |-> resp]
  /\ IF Handles401(resp, isRetry)
       THEN \* the refresh is sent
            /\ pc' = "refresh_401"
            /\ call' = [call EXCEPT !.refreshes = @ + 1, !.first401 = TRUE]
            /\ UNCHANGED <<remote, results, saved, result, rec>>
       ELSE /\ remote' = ServerApplies(call.kind, resp, result.email, call.put)
            /\ CallEnds(ApiReturn(call.kind, resp, result.email),
                        [call EXCEPT !.retry401 = (isRetry /\ HttpStatus(resp) = 401)])
  /\ sent' = sent \cup InFlight(pc', call')
  /\ ended' = IF pc' = "done" THEN Ended("error", 0) ELSE ended
  /\ UNCHANGED <<env_file, vendor_data, now, access_token, token_expires_at, i,
                 summaries, run, previous, refreshFailed, args, csv_file>>

\* the CRM answers the first request of make_api_call
Request ==
  /\ pc = "request"
  /\ \E resp \in Responses : Answered(resp, FALSE)

\* the token endpoint answers the refresh sent after a 401
Refresh401 ==
  /\ pc = "refresh_401"
  /\ \E a \in RefreshAnswers : Refresh("401", a)

\* the CRM answers the retried request of make_api_call
Retry ==
  /\ pc = "retry"
  /\ \E resp \in Responses : Answered(resp, TRUE)

\* process_all_vendors after its loop: print_summary and save_csv_with_status
Finish ==
  /\ pc = "loop"
  /\ i = Len(vendor_data)
  /\ pc' = "done"
  /\ summaries' = SaveSummary(summaries, results)
  /\ saved' = SaveCsv(saved, results)
  /\ lastOp' = NoOp
  /\ rec' = NoRec
  /\ ended' = Ended("finished", 0)
  /\ UNCHANGED <<env_file, vendor_data, remote, now, access_token, token_expires_at,
                 results, run, previous, i, result, call, refreshFailed, args,
                 csv_file, sent>>

Next ==
  \/ Tick
  \/ StartRecord
  \/ RefreshExpired
  \/ Request
  \/ Refresh401
  \/ Retry
  \/ Finish

Spec == Init /\ [][Next]_vars

\* The program is run again on the same sheet: main makes a new CRMNameUpdater,
\* whose token manager loads the credential file, and asks for all vendors.
Restart ==
  /\ pc = "done"
  /\ run < MaxRuns
  /\ run' = run + 1
  /\ previous' = results
  /\ access_token' = LoadCredentials(env_file).access_token
  /\ token_expires_at' = LoadCredentials(env_file).token_expires_at
  /\ results' = NewResults(vendor_data)
  /\ i' = 0
  /\ pc' = "loop"
  /\ rec' = NoRec
  /\ lastOp' = NoOp
  /\ refreshFailed' = FALSE
  /\ sent' = {"fetch"}
  /\ ended' = NotEnded
  /\ UNCHANGED <<env_file, vendor_data, remote, now, saved, summaries, result, call,
                 args, csv_file>>

NextRerun == Next \/ Restart

\* runs of the program, one after the other, on a sheet of one row
InitRerun == Init /\ Len(vendor_data) = 1

SpecRerun == InitRerun /\ [][NextRerun]_vars

\* The program is sequential and every blocking call is answered or raises: it
\* takes its next step whenever it has one. The clock owes nothing.
Program == StartRecord \/ RefreshExpired \/ Request \/ Refresh401 \/ Retry \/ Finish

FairSpec == Spec /\ WF_vars(Program)

\* ---------------------------------------------------------------- start-up
\* The command lines of main: --url or not, --email with or without --name, --all.
MainArgs ==
  [url : BOOLEAN, email : {0, 1, 2}, name : {NoName, NameAB}, all : BOOLEAN]

\* The credential files main may find: none, one without the refresh token, one
\* whose client id is empty, and complete ones without and with a token.
EnvFilesMain ==
  { NoFile,
    SubSeq(CredentialLines, 1, 8),
    << "ZOHO_CLIENT_ID", "=", "\n" >> \o SubSeq(CredentialLines, 5, 12),
    CredentialLines,
    CredentialLines \o AccessTokenLine("tok0")
      \o ExpiresAtLine(DefaultExpiresIn - ExpiryBuffer) }

\* The sheets main may load: no row, one row, or two rows.
MainSheets == { << >>, << NameA >>, << NameAB >>, << NameAB, NameAB >> }

\* The local files --csv may name: none, or a sheet.
CsvFiles == { CsvMissing } \cup { [exists |-> TRUE, rows |-> r] : r \in {<< NameA >>} }

\* What the spreadsheet host answers to the fetch.
FetchAnswers ==
  { "csv",        \* 2xx, CSV with the columns Contact email and Name
    "nocolumns",  \* 2xx, CSV whose header lacks a mandatory column
    "html",       \* 2xx, an HTML page
    "httperr",    \* not 2xx
    "timeout",    \* no answer within 30 seconds
    "neterr" }    \* the connection fails

\* main, "Determine data source"
IsUrl(a) == a.url \/ DEFAULT_SHEET_URL # ""

\* fetch_from_url raises
FetchRaises(answer) == answer \in {"html", "httperr", "timeout", "neterr"}

\* parse_csv_string raises: a mandatory column is missing
ParseRaises(answer) == answer = "nocolumns"

\* a load that does not look at the columns
LoadFailsOnFetchOnly(answer) == FetchRaises(answer)

\* _load_from_url raises, which main answers with sys.exit(1)
LoadFails(answer) == FetchRaises(answer) \/ ParseRaises(answer)

\* confirm.upper()
Upper(text) == IF text = "yes" THEN "YES" ELSE text

\* the process ends without having reached the loop
Exit(why, code) ==
  /\ pc' = "done"
  /\ ended' = Ended(why, code)

InitMain ==
  /\ args \in MainArgs
  /\ env_file \in EnvFilesMain
  /\ csv_file \in CsvFiles
  /\ remote \in RemoteScenarios
  /\ vendor_data = << >>
  /\ now = 0
  /\ access_token = None
  /\ token_expires_at = DefaultExpiresAt
  /\ results = NewResults(<< >>)
  /\ saved = << >>
  /\ summaries = << >>
  /\ run = 1
  /\ previous = NewResults(<< >>)
  /\ i = 0
  /\ pc = "main"
  /\ result = NoResult
  /\ call = NoCall
  /\ rec = NoRec
  /\ lastOp = NoOp
  /\ refreshFailed = FALSE
  /\ sent = {}
  /\ ended = NotEnded

\* main up to the fetch of the sheet: CRMNameUpdater.__init__ makes the token
\* manager, which loads the credentials, and then loads the data
Main ==
  /\ pc = "main"
  /\ lastOp' = NoOp
  /\ IF ~Exists(env_file) \/ ~CredentialsComplete(LoadCredentials(env_file))
       THEN \* _show_setup_instructions
            /\ Exit("setup", 1)
            /\ UNCHANGED <<access_token, token_expires_at, vendor_data, results>>
       ELSE /\ access_token' = LoadCredentials(env_file).access_token
            /\ token_expires_at' = LoadCredentials(env_file).token_expires_at
            /\ IF IsUrl(args)
                 THEN \* requests.get(url, headers=headers, timeout=30) is sent
                      /\ pc' = "fetch"
                      /\ ended' = ended
                      /\ UNCHANGED <<vendor_data, results>>
                 ELSE IF ~csv_file.exists
                   THEN \* except FileNotFoundError
                        /\ Exit("load_failed", 1)
                        /\ UNCHANGED <<vendor_data, results>>
                   ELSE /\ vendor_data' = csv_file.rows
                        /\ results' = NewResults(csv_file.rows)
                        /\ pc' = "constructed"
                        /\ ended' = ended
  /\ sent' = sent \cup InFlight(pc', call)
  /\ UNCHANGED <<env_file, remote, now, saved, summaries, run, previous, i, result,
                 call, rec, refreshFailed, args, csv_file>>

\* the spreadsheet host answers: fetch_from_url and parse_csv_string, and the
\* rest of CRMNameUpdater.__init__
Fetched ==
  /\ pc = "fetch"
  /\ \E answer \in FetchAnswers, rows \in MainSheets :
       /\ lastOp' = [op |-> "fetch", answer |-> answer]
       /\ IF LoadFails(answer)
            THEN \* except Exception of main: sys.exit(1)
                 /\ Exit("load_failed", 1)
                 /\ UNCHANGED <<vendor_data, results>>
            ELSE /\ vendor_data' = (IF answer = "csv" THEN rows ELSE << >>)
                 /\ results' = NewResults(vendor_data')
                 /\ pc' = "constructed"
                 /\ ended' = ended
  /\ UNCHANGED <<env_file, remote, now, access_token, token_expires_at, saved,
                 summaries, run, previous, i, result, call, rec, refreshFailed, args,
                 csv_file, sent>>

\* if custom_name
HasCustomName(a) == a.name # NoName /\ a.name # NameEmpty

\* main once the updater is made, up to the first thing it waits for: the
\* search of process_single_email, or the answer to the prompt of --all
Dispatch ==
  /\ pc = "constructed"
  /\ lastOp' = NoOp
  /\ IF args.email # 0
       THEN IF HasCustomName(args) \/ args.email \in DOMAIN vendor_data
              THEN /\ result' = [email |-> args.email,
                                 vendor_name |-> IF HasCustomName(args) THEN args.name
                                                 ELSE VendorInfo(args.email).name,
                                 status |-> "not_found", current_name |-> NoName,
                                 updated_name |-> NoName, contact_id |-> None]
                   /\ rec' = [NoRec EXCEPT !.errsAtStart = Len(results.errors)]
                   /\ BeginCall("search", << >>)
                   /\ ended' = ended
              ELSE \* Email not found in vendor data
                   /\ Exit("not_in_sheet", 0)
                   /\ UNCHANGED <<result, rec, call>>
       ELSE IF args.all
         THEN \* input(...) waits for the user
              /\ pc' = "confirm"
              /\ ended' = ended
              /\ UNCHANGED <<result, rec, call>>
         ELSE \* No action specified
              /\ Exit("no_action", 0)
              /\ UNCHANGED <<result, rec, call>>
  /\ sent' = sent \cup InFlight(pc', call')
  /\ UNCHANGED <<env_file, vendor_data, remote, now, access_token, token_expires_at,
                 results, saved, summaries, run, previous, i, refreshFailed, args,
                 csv_file>>

\* What the user may type at the prompt; "eof" is a closed standard input.
ConfirmAnswers == { "YES", "yes", "no", "", "eof" }

\* the user answers the prompt of --all
Confirm ==
  /\ pc = "confirm"
  /\ \E answer \in ConfirmAnswers :
       /\ lastOp' = [op |-> "confirm", answer |-> answer]
       /\ IF answer = "eof"
            THEN \* input raises EOFError: except Exception of main prints it
                 Exit("error", 0)
            ELSE IF Upper(answer) = "YES"
              THEN \* process_all_vendors
                   /\ pc' = "loop"
                   /\ ended' = ended
              ELSE \* Operation cancelled
                   Exit("cancelled", 0)
  /\ UNCHANGED <<env_file, vendor_data, remote, now, access_token, token_expires_at,
                 results, saved, summaries, run, previous, i, result, call, rec,
                 refreshFailed, args, csv_file, sent>>

\* process_single_email after process_email: print_summary and
\* save_csv_with_status
FinishSingle ==
  /\ pc = "single_done"
  /\ pc' = "done"
  /\ summaries' = SaveSummary(summaries, results)
  /\ saved' = SaveCsv(saved, results)
  /\ lastOp' = NoOp
  /\ rec' = NoRec
  /\ ended' = Ended("finished", 0)
  /\ UNCHANGED <<env_file, vendor_data, remote, now, access_token, token_expires_at,
                 results, run, previous, i, result, call, refreshFailed, args,
                 csv_file, sent>>

NextMain == Main \/ Fetched \/ Dispatch \/ Confirm \/ FinishSingle \/ Next

SpecMain == InitMain /\ [][NextMain]_vars

\* ------------------------------------------------------------------ claims
processed == results.processed_contacts

\* the step just taken ended the processing of a record
RecordEnded == pc = "loop" /\ rec.search # "none"

\* the outcome of the record that just ended
LastOutcome == processed[Len(processed)]

\* the make_api_calls of the record in progress that have ended
EndedCalls == { rec.calls[k] : k \in DOMAIN rec.calls }

\* both the request and the retried request of the call were answered 401
TwiceUnauthorized(c) == c.first401 /\ c.retry401

\* C1 as stated: a call answered 401 twice makes exactly one refresh attempt
\* and exactly one retried request, fails, and never sends a third request,
\* whatever the token state it started from.
C1_SingleRetryAnyTokenState ==
  /\ call.kind # "none" => call.requests <= 2
  /\ \A c \in EndedCalls :
       /\ c.requests <= 2
       /\ TwiceUnauthorized(c) => c.raised /\ c.requests = 2 /\ c.refreshes = 1

\* C1 amended: a call answered 401 twice sends exactly two requests (a third is
\* never sent) and fails; it makes one refresh attempt when the token was
\* unexpired at the start of the call and two when it was expired (the one of
\* get_valid_token and the one for the 401).
C1_SingleRetry ==
  /\ call.kind # "none" => call.requests <= 2
  /\ \A c \in EndedCalls :
       /\ c.requests <= 2
       /\ TwiceUnauthorized(c) =>
            /\ c.raised
            /\ c.requests = 2
            /\ c.refreshes = IF c.expired THEN 2 ELSE 1

C1_Witness ==
  \E c \in EndedCalls : TwiceUnauthorized(c) /\ c.expired /\ c.raised

\* a write call of the record in progress has been sent or has ended
WriteIssued ==
  \/ pc \in {"refresh_expired", "request", "refresh_401", "retry"} /\ call.kind = "update"
  \/ \E c \in EndedCalls : c.kind = "update"

\* the search of the record that just ended returned a contact whose name is,
\* character for character, the name the sheet asks for
FoundCorrectName ==
  /\ RecordEnded
  /\ rec.search = "found"
  /\ LastOutcome.current_name = LastOutcome.updated_name

\* the row had the outcome already_correct in the run before this one
WasCorrectBefore(email) ==
  \E k \in DOMAIN previous.processed_contacts :
    /\ previous.processed_contacts[k].email = email
    /\ previous.processed_contacts[k].status = "already_correct"

\* C2: when the search returns a contact whose name equals the desired name,
\* no write call is sent for the record and its outcome is already_correct;
\* when the program is run again and the search returns the contact of a row
\* that was already_correct, again no write call is sent and the outcome is
\* already_correct.
C2_IdempotenceGuard ==
  /\ (pc # "loop" /\ pc # "done" /\ call.kind = "update")
        => result.current_name # result.updated_name
  /\ FoundCorrectName
        => /\ LastOutcome.status = "already_correct"
           /\ ~WriteIssued
           /\ rec.update = "equal"
  /\ (RecordEnded /\ rec.search = "found" /\ WasCorrectBefore(LastOutcome.email))
        => /\ LastOutcome.status = "already_correct"
           /\ ~WriteIssued

C2_Witness ==
  /\ run = MaxRuns
  /\ FoundCorrectName
  /\ WasCorrectBefore(LastOutcome.email)
  /\ LastOutcome.current_name # NameEmpty

\* C3: under fairness every row of the sheet gets exactly one outcome, in
\* order, whatever fails on the way, and the run then finishes.
C3_FailureIsolation ==
  <>(/\ pc = "done"
     /\ Len(processed) = Len(vendor_data)
     /\ \A k \in DOMAIN processed : processed[k].email = k)

C3_Witness ==
  /\ pc = "done"
  /\ Len(processed) = Len(vendor_data)
  /\ Len(vendor_data) >= 2
  /\ refreshFailed
  /\ \E k \in DOMAIN results.errors : results.errors[k] = [op |-> "search", key |-> ToString(1)]
  /\ processed[Len(processed)].status = "updated"

\* C4 as stated: a record whose search raises ends with status Error and one
\* more message in the error list.
C4_SearchFailureIsError ==
  (RecordEnded /\ rec.search = "raised") =>
    /\ LastOutcome.status = "error"
    /\ Len(results.errors) = rec.errsAtStart + 1

\* the record that just ended made an update call, which the CRM answered last
UpdateAnswered ==
  /\ RecordEnded
  /\ Len(rec.calls) = 2
  /\ rec.calls[2].kind = "update"
  /\ lastOp.op = "request"

\* C5: an outcome is Updated only if an update call was made and answered with
\* the success code; an update answered 2xx without the success code or with a
\* malformed body ends in Error after that one update call.
C5_UpdatedOnlyOnSuccess ==
  /\ \A k \in DOMAIN processed :
       processed[k].status = "updated" =>
         processed[k].contact_id # None /\ processed[k].current_name # processed[k].updated_name
  /\ (RecordEnded /\ LastOutcome.status = "updated") =>
       UpdateAnswered /\ lastOp.resp = "ok"
  /\ (UpdateAnswered /\ lastOp.resp \in {"failcode", "nodata", "empty", "nonjson"}) =>
       LastOutcome.status = "error"
  /\ Cardinality({ k \in DOMAIN rec.calls : rec.calls[k].kind = "update" })
       + (IF call.kind = "update" THEN 1 ELSE 0) <= 1

C5_Witness ==
  UpdateAnswered /\ lastOp.resp = "failcode" /\ LastOutcome.status = "error"

\* the search of the record that just ended was answered with an empty result
\* set: the CRM holds no contact for the email
SearchFoundNothing ==
  /\ RecordEnded
  /\ Len(rec.calls) = 1
  /\ lastOp.op = "request"
  /\ lastOp.resp \in {"ok", "empty"}
  /\ remote[LastOutcome.email] = << >>

\* C6: a record whose email the CRM does not hold ends NotFound, without an
\* update call and without a message in the error list.
C6_NotFoundIsNoError ==
  SearchFoundNothing =>
    /\ LastOutcome.status = "not_found"
    /\ rec.update = "none"
    /\ Len(results.errors) = rec.errsAtStart

C6_Witness == SearchFoundNothing /\ Len(processed) = 2

RefreshJustFailed == lastOp.op = "refresh" /\ ~lastOp.ok

RefreshJustSucceeded == lastOp.op = "refresh" /\ lastOp.ok

\* C8 as stated: every refresh that succeeds raises expires_at.
C8_ExpiryAlwaysGrows ==
  RefreshJustSucceeded => token_expires_at > lastOp.old_expires_at

\* C8 amended: a refresh that succeeds sets expires_at to now + expires_in - 60;
\* that is more than the old expires_at when the refresh was the one of
\* get_valid_token (the token had expired) and the lifetime is more than 60.
C8_ExpiryGrowsAfterExpiry ==
  RefreshJustSucceeded =>
    /\ token_expires_at = now + lastOp.expires_in - ExpiryBuffer
    /\ (lastOp.trigger = "expired" /\ lastOp.expires_in > ExpiryBuffer) =>
         token_expires_at > lastOp.old_expires_at

C8_Witness ==
  /\ RefreshJustSucceeded
  /\ lastOp.trigger = "expired"
  /\ lastOp.expires_in > ExpiryBuffer
  /\ now > 0

\* C9 as stated: right after a refresh that succeeded the token is not expired.
C9_FreshTokenNeverExpired ==
  RefreshJustSucceeded => ~IsTokenExpired(now, token_expires_at)

\* C9 amended: right after a refresh that succeeded the token is expired
\* exactly when the lifetime the token endpoint gave is 60 or less.
C9_FreshTokenExpiredIffShortLived ==
  RefreshJustSucceeded =>
    (IsTokenExpired(now, token_expires_at) <=> lastOp.expires_in <= ExpiryBuffer)

C9_Witness ==
  RefreshJustSucceeded /\ lastOp.expires_in > ExpiryBuffer /\ pc = "retry"

\* C10 as stated: every Error outcome has its message in the error list.
C10_ErrorsRetained ==
  /\ (RecordEnded /\ LastOutcome.status = "error") =>
       Len(results.errors) = rec.errsAtStart + 1
  /\ pc = "loop" =>
       Len(results.errors) >= Cardinality({ k \in DOMAIN processed : processed[k].status = "error" })

\* the load of the sheet has just failed: the fetch was answered by an error
\* status, a broken connection, a timeout or a page of markup, or the CSV it
\* brought lacks a mandatory column
LoadJustFailed ==
  /\ lastOp.op = "fetch"
  /\ lastOp.answer \in {"httperr", "neterr", "timeout", "html", "nocolumns"}

\* C11: when the load of the records fails, the process has ended with exit
\* status 1 and has sent no search and no update in the run.
C11_FailFastLoad ==
  (LoadJustFailed \/ ended.why = "load_failed")
    => /\ pc = "done"
       /\ ended.code = 1
       /\ sent \cap {"search", "update"} = {}
       /\ processed = << >>

C11_Witness == LoadJustFailed /\ lastOp.answer = "nocolumns" /\ ended.code = 1

\* the user has just declined the prompt of --all
Declined ==
  /\ lastOp.op = "confirm"
  /\ lastOp.answer # "eof"
  /\ Upper(lastOp.answer) # "YES"

\* C12 as stated: when the user declines the prompt, the process ends with a
\* failure status and the run has sent no network call at all.
C12_DeclineFailsBeforeNetwork ==
  Declined => (pc = "done" /\ ended.code # 0 /\ sent = {})

\* the credential file is missing or lacks the client id, the client secret or
\* the refresh token
CredentialsMissing ==
  ~Exists(env_file) \/ ~CredentialsComplete(LoadCredentials(env_file))

\* no --url is given, and no file is where --csv points
LocalSourceMissing == ~args.url /\ ~csv_file.exists

\* C13 as stated: with the credentials missing, or the local source file
\* missing, the run sends no network call and ends with a failure status.
C13_MissingInputsFailBeforeNetwork ==
  (CredentialsMissing \/ LocalSourceMissing)
    => /\ sent = {}
       /\ pc \in {"main", "done"}
       /\ pc = "done" => ended.code = 1

\* the outcomes are those of the first rows of the sheet, in the order of the sheet
InSheetOrder ==
  /\ Len(processed) <= Len(vendor_data)
  /\ Len(processed) \in {i, i - 1}
  /\ \A k \in 1..Len(processed) :
       /\ processed[k].email = k
       /\ processed[k].vendor_name = vendor_data[k]

\* a step leaves the outcomes alone or puts one more behind them
OnlyAppends ==
  \/ processed' = processed
  \/ /\ Len(processed') = Len(processed) + 1
     /\ SubSeq(processed', 1, Len(processed)) = processed

\* C14: at every point of a batch run the outcomes are, in order, those of the
\* first k rows of the sheet, and every step only appends to them.
C14_OutcomesArePrefix == []InSheetOrder /\ [][OnlyAppends]_vars

C14_Witness ==
  /\ Len(processed) = 2
  /\ processed[1].email = 1
  /\ processed[2].email = 2
  /\ processed[1].status # processed[2].status

\* ------------------------------------------------- a batch longer than ten
\* the tens of rows of the long sheet
MaxTens == 1

\* a sheet that goes one row past its last tenth row
BatchRows == MaxTens * SaveEvery + 1

BatchSheet == [e \in 1 .. BatchRows |-> IF e % 3 = 0 THEN NameA ELSE NameAB]

\* the CRM contents the long run may start from
BatchRemotes ==
  { [e \in 1 .. BatchRows |-> RemoteKinds(e)[((e + k) % 4) + 1]] : k \in 0 .. 3 }

\* in the long run the searches are answered with their result, and an update
\* is applied or refused with an error status
BatchResponses(kind) == IF kind = "search" THEN {"ok"} ELSE {"ok", "http500"}

\* main with --all on the long sheet, with a token that is valid for the run
InitBatch ==
  /\ vendor_data = BatchSheet
  /\ remote \in BatchRemotes
  /\ now = 0
  /\ env_file = CredentialLines \o AccessTokenLine("tok0")
                   \o ExpiresAtLine(DefaultExpiresIn - ExpiryBuffer)
  /\ access_token = LoadCredentials(env_file).access_token
  /\ token_expires_at = LoadCredentials(env_file).token_expires_at
  /\ results = NewResults(vendor_data)
  /\ saved = << >>
  /\ summaries = << >>
  /\ run = 1
  /\ previous = NewResults(<< >>)
  /\ i = 0
  /\ pc = "loop"
  /\ result = NoResult
  /\ call = NoCall
  /\ rec = NoRec
  /\ lastOp = NoOp
  /\ refreshFailed = FALSE
  /\ args = BatchArgs
  /\ csv_file = CsvMissing
  /\ sent = {"fetch"}
  /\ ended = NotEnded

\* the CRM answers the request of make_api_call in the long run
RequestBatch ==
  /\ pc = "request"
  /\ \E resp \in BatchResponses(call.kind) : Answered(resp, FALSE)

NextBatch ==
  \/ Tick
  \/ StartRecord
  \/ RequestBatch
  \/ Finish

SpecBatch == InitBatch /\ [][NextBatch]_vars

\* the Update_Status of a row whose outcome has the given status
StatusLabel(status) ==
  CASE status = "updated" -> "UPDATED"
    [] status = "already_correct" -> "NO_CHANGE_NEEDED"
    [] status = "not_found" -> "NOT_FOUND_IN_CRM"
    [] status = "error" -> "ERROR"

\* the file annotates the first n rows with the status of their outcome and the
\* rows behind them with NOT_PROCESSED
Annotates(file, outcomes, n) ==
  /\ DOMAIN file = DOMAIN vendor_data
  /\ \A e \in DOMAIN vendor_data :
       file[e].Update_Status =
         IF e <= n THEN StatusLabel(outcomes[e].status) ELSE "NOT_PROCESSED"

\* the step appends the outcome of a tenth record, or ends the loop
CheckpointDue ==
  \/ /\ Len(processed') = Len(processed) + 1
     /\ Len(processed') % SaveEvery = 0
  \/ pc = "loop" /\ pc' = "done"

\* C15: the progress is saved by the step that appends the outcome of every
\* tenth record and by the step that ends the run, and by no other step; the
\* file annotates the records processed so far with the status of their outcome
\* and every other row with NOT_PROCESSED, and the earlier files stay as they are.
C15_Checkpoints ==
  [][ IF CheckpointDue
        THEN /\ now \in DOMAIN saved'
             /\ Annotates(saved'[now], processed', Len(processed'))
             /\ \A t \in DOMAIN saved \ {now} :
                  t \in DOMAIN saved' /\ saved'[t] = saved[t]
        ELSE saved' = saved ]_vars

C15_Witness ==
  /\ pc = "done"
  /\ Len(processed) = BatchRows
  /\ \E t, u \in DOMAIN saved :
       /\ t < u
       /\ Annotates(saved[t], processed, SaveEvery)
       /\ Annotates(saved[u], processed, BatchRows)
  /\ {processed[k].status : k \in 1 .. SaveEvery}
       = {"updated", "already_correct", "not_found", "error"}

\* ------------------------------------------------------------- interrupt
\* The user interrupts the batch: KeyboardInterrupt is raised where the process
\* is, in the sleep between two records or in the request it waits for. It is
\* no Exception, so no handler of the loop catches it and it reaches main, which
\* prints a line; the process ends. A request the CRM had received may still be
\* applied there.
Interrupt ==
  /\ pc \in {"loop", "request", "retry", "refresh_expired", "refresh_401"}
  /\ IF pc = "loop"
       THEN Escapes
       ELSE CallEnds([raised |-> TRUE, cause |-> "interrupt"], call)
  /\ remote' \in IF pc \in {"request", "retry"}
                   THEN {remote, ServerApplies(call.kind, "ok", result.email, call.put)}
                   ELSE {remote}
  /\ lastOp' = [op |-> "interrupt"]
  /\ ended' = IF pc' = "done" THEN Ended("interrupted", 0) ELSE ended
  /\ sent' = sent \cup InFlight(pc', call')
  /\ UNCHANGED <<env_file, vendor_data, now, access_token, token_expires_at, i,
                 summaries, run, previous, refreshFailed, args, csv_file>>

NextInterrupt == Next \/ Interrupt

SpecInterrupt == Init /\ [][NextInterrupt]_vars

\* the requests the process has sent or is about to send
NothingInFlight == call = NoCall /\ InFlight(pc, call) = {}

CountersAgree(res) ==
  LET outcomes == res.processed_contacts IN
  /\ res.contacts_found =
       Cardinality({ k \in DOMAIN outcomes : outcomes[k].contact_id # None })
  /\ res.names_updated =
       Cardinality({ k \in DOMAIN outcomes : outcomes[k].status = "updated" })
  /\ res.already_correct =
       Cardinality({ k \in DOMAIN outcomes : outcomes[k].status = "already_correct" })

\* C17: every summary that was produced, after --email as after --all, has
\* counters that agree with a count over its outcomes, and so have the results
\* whenever no record is in progress.
C17_CountersAgreeWithFold ==
  /\ \A t \in DOMAIN summaries : CountersAgree(summaries[t])
  /\ pc \in {"loop", "single_done", "done"} => CountersAgree(results)

C17_Witness ==
  \E t \in DOMAIN summaries :
    /\ summaries[t].contacts_found = 2
    /\ summaries[t].names_updated = 1
    /\ summaries[t].already_correct = 1
    /\ Len(summaries[t].processed_contacts) = 2

\* ------------------------------------------------- other credential files
\* a text without the "\n" at its end
Unterminated(text) == SubSeq(text, 1, Len(text) - 1)

\* Credential files as an editor may leave them: the last line without its
\* "\n", with or without the two token keys; a comment and a key of no concern
\* to the token manager around the credentials; one of the two token keys
\* without the other.
EnvFilesEdited ==
  { Unterminated(CredentialLines),
    Unterminated(CredentialLines \o AccessTokenLine("tok0")
                   \o ExpiresAtLine(ClockStep \div 2)),
    << "#", " zoho", "\n" >> \o CredentialLines
      \o << "ZOHO_API_DOMAIN", "=", "https://www.zohoapis.eu", "\n" >>,
    CredentialLines \o ExpiresAtLine(ClockStep \div 2) \o AccessTokenLine("tok0")
      \o << "LOG", "=", "1", "\n" >>,
    CredentialLines \o ExpiresAtLine(DefaultExpiresIn - ExpiryBuffer),
    CredentialLines \o AccessTokenLine("tok0") }

\* runs of the program, one after the other, on a sheet of one row, from a
\* credential file an editor left
InitFiles ==
  /\ vendor_data \in [1 .. 1 -> DesiredNames]
  /\ remote \in RemoteScenarios
  /\ now = 0
  /\ env_file \in EnvFilesEdited
  /\ access_token = LoadCredentials(env_file).access_token
  /\ token_expires_at = LoadCredentials(env_file).token_expires_at
  /\ results = NewResults(vendor_data)
  /\ saved = << >>
  /\ summaries = << >>
  /\ run = 1
  /\ previous = NewResults(<< >>)
  /\ i = 0
  /\ pc = "loop"
  /\ result = NoResult
  /\ call = NoCall
  /\ rec = NoRec
  /\ lastOp = NoOp
  /\ refreshFailed = FALSE
  /\ args = BatchArgs
  /\ csv_file = CsvMissing
  /\ sent = {"fetch"}
  /\ ended = NotEnded

SpecFiles == InitFiles /\ [][NextRerun]_vars

\* the step is a refresh that succeeded
RefreshSucceeds == lastOp'.op = "refresh" /\ lastOp'.ok

\* a line that assigns neither the access token nor its expiry time
NotTokenLine(line) ==
  /\ ~StartsWithKey(line, "ZOHO_ACCESS_TOKEN")
  /\ ~StartsWithKey(line, "ZOHO_TOKEN_EXPIRES_AT")

\* the text holds the two token keys, each on a line of its own
TokenLinesOf(text, token, expires_at) ==
  /\ \E k \in DOMAIN ReadLines(text) : ReadLines(text)[k] = AccessTokenLine(token)
  /\ \E k \in DOMAIN ReadLines(text) : ReadLines(text)[k] = ExpiresAtLine(expires_at)

\* C18 as stated: every successful refresh leaves every line that is not a
\* token line unchanged and in its place among the others, and the file holds
\* afterwards the two token keys each on a line of its own, whatever the file
\* held before.
C18_RewritePreservesLines ==
  [][ RefreshSucceeds
        => /\ SelectSeq(ReadLines(env_file'), NotTokenLine)
                = SelectSeq(ReadLines(env_file), NotTokenLine)
           /\ TokenLinesOf(env_file', access_token', token_expires_at') ]_vars

\* C19 as stated: after every successful refresh, load_credentials on the file
\* gives the access token and the expiry time held in memory, and the client
\* id, client secret, refresh token and API domain it gave before.
C19_TokenStateSurvivesRestart ==
  [][ RefreshSucceeds
        => /\ LoadCredentials(env_file').access_token = access_token'
           /\ LoadCredentials(env_file').token_expires_at = token_expires_at'
           /\ LoadCredentials(env_file').client_id = LoadCredentials(env_file).client_id
           /\ LoadCredentials(env_file').client_secret
                = LoadCredentials(env_file).client_secret
           /\ LoadCredentials(env_file').refresh_token
                = LoadCredentials(env_file).refresh_token
           /\ LoadCredentials(env_file').api_domain
                = LoadCredentials(env_file).api_domain ]_vars

\* ----------------------------------------------------------- other names
\* the longest name of the runs on names
MaxNameLen == 5

\* the names of up to MaxNameLen characters, of letters and blanks
Names == UNION { [1 .. n -> {"A", "B", " "}] : n \in 1 .. MaxNameLen }

\* a name as the loader leaves it: row.get('Name', '').strip()
IsStripped(name) == name[1] # " " /\ name[Len(name)] # " "

\* main with --email for the one row of the sheet, once the updater is made:
\* the name is the one of the row, or the one --name gives, which nobody has
\* stripped. The CRM holds the contact without a name, and the token is valid.
InitNames ==
  /\ \E n \in Names :
       \/ /\ args = [url |-> FALSE, email |-> 1, name |-> n, all |-> FALSE]
          /\ vendor_data = << NameA >>
       \/ /\ IsStripped(n)
          /\ args = [url |-> FALSE, email |-> 1, name |-> NoName, all |-> FALSE]
          /\ vendor_data = << n >>
  /\ remote = [e \in Emails |-> << [id |-> ContactId(e)] >>]
  /\ now = 0
  /\ env_file = CredentialLines \o AccessTokenLine("tok0")
                   \o ExpiresAtLine(DefaultExpiresIn - ExpiryBuffer)
  /\ access_token = LoadCredentials(env_file).access_token
  /\ token_expires_at = LoadCredentials(env_file).token_expires_at
  /\ results = NewResults(vendor_data)
  /\ saved = << >>
  /\ summaries = << >>
  /\ run = 1
  /\ previous = NewResults(<< >>)
  /\ i = 0
  /\ pc = "constructed"
  /\ result = NoResult
  /\ call = NoCall
  /\ rec = NoRec
  /\ lastOp = NoOp
  /\ refreshFailed = FALSE
  /\ csv_file = CsvMissing
  /\ sent = {"fetch"}
  /\ ended = NotEnded

NextNames ==
  \/ Dispatch
  \/ RequestBatch
  \/ FinishSingle

SpecNames == InitNames /\ [][NextNames]_vars

\* the maximal runs of characters that are no blanks, as <<first, last>> places
Runs(s) ==
  { r \in (DOMAIN s) \X (DOMAIN s) :
      /\ r[1] <= r[2]
      /\ \A j \in r[1] .. r[2] : s[j] # " "
      /\ r[1] = 1 \/ s[r[1] - 1] = " "
      /\ r[2] = Len(s) \/ s[r[2] + 1] = " " }

\* the k-th whitespace-separated token of s
TokenAt(s, k) ==
  LET r == CHOOSE r \in Runs(s) : Cardinality({ q \in Runs(s) : q[1] < r[1] }) = k - 1
  IN SubSeq(s, r[1], r[2])

\* first is the first token of the name; last is the other tokens in their
\* order, with one blank between two of them and none around them
IsNameSplit(name, first, last) ==
  /\ first = TokenAt(name, 1)
  /\ Cardinality(Runs(last)) = Cardinality(Runs(name)) - 1
  /\ \A k \in 1 .. Cardinality(Runs(last)) : TokenAt(last, k) = TokenAt(name, k + 1)
  /\ \A j \in DOMAIN last :
       last[j] = " " => (j > 1 /\ j < Len(last) /\ last[j + 1] # " ")

\* C20: the update call carries as first name the first token of the desired
\* name and as last name the remaining tokens joined by single blanks, the
\* empty text when there is one token only.
C20_NameSplit ==
  call.kind = "update"
    => /\ result.updated_name = result.vendor_name
       /\ IsNameSplit(result.updated_name, call.put[1].First_Name, call.put[1].Last_Name)
       /\ Cardinality(Runs(result.updated_name)) = 1 => call.put[1].Last_Name = << >>

C20_Witness ==
  /\ pc = "request"
  /\ call.kind = "update"
  /\ result.updated_name = << " ", "A", " ", " ", "B" >>
  /\ call.put[1].First_Name = << "A" >>
  /\ call.put[1].Last_Name = << "B" >>

\* the make_api_calls of the given kind that have ended for the record
CallsOf(kind) == { k \in DOMAIN rec.calls : rec.calls[k].kind = kind }

\* the name of a contact as the CRM returns it, "Unknown" when it has none
ReturnedName(contact) ==
  IF "Full_Name" \in DOMAIN contact THEN contact.Full_Name ELSE Unknown

\* the update call of the record in progress is on its way: the CRM still holds
\* the contact the search returned
UpdateInProgress == pc \notin {"loop", "done"} /\ call.kind = "update"

\* while the search is on its way no other call of the record has been made;
\* the update is on its way only after the one search returned a contact whose
\* name is not the desired one, and it names the id of that contact; a record
\* that ended has made one search and at most one update and has one of the
\* four statuses
ProtocolHolds ==
  /\ (pc \notin {"loop", "done"} /\ call.kind = "search") => rec.calls = << >>
  /\ UpdateInProgress
       => /\ Cardinality(CallsOf("search")) = 1
          /\ CallsOf("update") = {}
          /\ rec.search = "found"
          /\ remote[result.email] # << >>
          /\ result.current_name = ReturnedName(remote[result.email][1])
          /\ result.current_name # result.updated_name
          /\ result.updated_name = vendor_data[result.email]
          /\ result.contact_id = remote[result.email][1].id
          /\ call.put[1].id = remote[result.email][1].id
  /\ RecordEnded
       => /\ Cardinality(CallsOf("search")) = 1
          /\ Cardinality(CallsOf("update")) <= 1
          /\ Len(rec.calls) = Cardinality(CallsOf("search")) + Cardinality(CallsOf("update"))
          /\ LastOutcome.status \in {"updated", "already_correct", "not_found", "error"}
          /\ rec.search # "found"
               => CallsOf("update") = {} /\ LastOutcome.contact_id = None
          /\ (rec.search = "found" /\ CallsOf("update") = {})
               => LastOutcome.current_name = ReturnedName(remote[LastOutcome.email][1])

\* the outcome of a record that made an update carries the name and the id the
\* search returned
OutcomeKeepsPriorName ==
  (UpdateInProgress /\ RecordEnded')
    => /\ LastOutcome'.current_name = result.current_name
       /\ LastOutcome'.contact_id = result.contact_id
       /\ LastOutcome'.status \in {"updated", "error"}

\* C21: a record makes exactly one search call and at most one update call; the
\* update is sent only after the search returned a contact whose name differs
\* from the desired one and names the id of that contact; the outcome carries
\* the name the search returned and one of the four terminal statuses.
C21_PerRecordProtocol == []ProtocolHolds /\ [][OutcomeKeepsPriorName]_vars

C21_Witness ==
  /\ RecordEnded
  /\ Cardinality(CallsOf("update")) = 1
  /\ LastOutcome.status = "updated"
  /\ LastOutcome.current_name = NameA
  /\ LastOutcome.updated_name = NameAB
  /\ remote[LastOutcome.email][1].Full_Name = NameAB

\* the blocking network operations of one make_api_call: requests and refreshes
Trips(c) == c.requests + c.refreshes

RECURSIVE TripsFrom(_, _)
\* those of the calls k, k + 1, ... of a list of calls
TripsFrom(calls, k) ==
  IF k > Len(calls) THEN 0 ELSE Trips(calls[k]) + TripsFrom(calls, k + 1)

\* the blocking network operations of the record in progress, or of the one
\* that just ended: those of its ended calls and of the call on its way
RecordTrips ==
  TripsFrom(rec.calls, 1) + (IF call.kind = "none" THEN 0 ELSE Trips(call))

\* C22 as stated: no record causes more than three network round trips.
C22_ThreeRoundTrips == RecordTrips <= 3

\* C22 amended: a call makes at most four round trips (a refresh because the
\* token is expired, the request, a refresh because of a 401, the retried
\* request), a record at most eight, and a record whose calls met neither an
\* expired token nor a 401 at most two.
C22_RoundTripsBounded ==
  /\ call.kind # "none" => Trips(call) <= 4
  /\ \A c \in EndedCalls : Trips(c) <= 4
  /\ RecordTrips <= 8
  /\ (\A c \in EndedCalls \cup (IF call.kind = "none" THEN {} ELSE {call}) :
        ~c.expired /\ ~c.first401) => RecordTrips <= 2

C22_Witness ==
  /\ RecordEnded
  /\ RecordTrips = 8
  /\ Len(rec.calls) = 2
  /\ LastOutcome.status = "updated"

\* the step sends the first request of a make_api_call
SendsFirstRequest == pc # "request" /\ pc' = "request"

\* the file assigns the key
HasKey(f, key) == Getenv(f, key) # << >>

\* C23 as stated: the first request of a call is sent with an access token and
\* while the token is not expired; a process whose credential file lacked the
\* access-token key or the token-expiry key has refreshed before, so that the
\* file holds both when the request is sent.
C23_RefreshBeforeFirstRequest ==
  [][ SendsFirstRequest
        => /\ access_token' # None
           /\ ~IsTokenExpired(now', token_expires_at')
           /\ HasKey(env_file', "ZOHO_ACCESS_TOKEN")
           /\ HasKey(env_file', "ZOHO_TOKEN_EXPIRES_AT") ]_vars

\* the step just taken received the answer that ended a make_api_call
CallJustEnded == lastOp.op = "request" /\ pc # "refresh_401" /\ rec.calls # << >>

\* the call that just ended
LastCall == rec.calls[Len(rec.calls)]

C25_RejectedRefreshChangesNothing ==
  [][ (lastOp'.op = "refresh" /\ ~lastOp'.ok)
        => /\ access_token' = access_token
           /\ token_expires_at' = token_expires_at
           /\ env_file' = env_file ]_vars

C25_Witness ==
  /\ RefreshJustFailed
  /\ lastOp.trigger = "401"
  /\ access_token = "tok0"
  /\ token_expires_at = DefaultExpiresIn - ExpiryBuffer
  /\ LoadCredentials(env_file).access_token = "tok0"

\* ------------------------------------------------------ runs that converge
\* runs of the program, one after the other, on a sheet of one row with any
\* name the loader can leave; the CRM holds the contact under another name or
\* without a name, and the token is valid
InitConverge ==
  /\ \E n \in Names : IsStripped(n) /\ vendor_data = << n >>
  /\ remote \in { [e \in Emails |-> << [id |-> ContactId(e), Full_Name |-> << "B", "A" >>] >>],
                  [e \in Emails |-> << [id |-> ContactId(e)] >>] }
  /\ now = 0
  /\ env_file = CredentialLines \o AccessTokenLine("tok0")
                   \o ExpiresAtLine(DefaultExpiresIn - ExpiryBuffer)
  /\ access_token = LoadCredentials(env_file).access_token
  /\ token_expires_at = LoadCredentials(env_file).token_expires_at
  /\ results = NewResults(vendor_data)
  /\ saved = << >>
  /\ summaries = << >>
  /\ run = 1
  /\ previous = NewResults(<< >>)
  /\ i = 0
  /\ pc = "loop"
  /\ result = NoResult
  /\ call = NoCall
  /\ rec = NoRec
  /\ lastOp = NoOp
  /\ refreshFailed = FALSE
  /\ args = BatchArgs
  /\ csv_file = CsvMissing
  /\ sent = {"fetch"}
  /\ ended = NotEnded

NextConverge ==
  \/ StartRecord
  \/ RequestBatch
  \/ Finish
  \/ Restart

SpecConverge == InitConverge /\ [][NextConverge]_vars

\* the name is made of tokens with one blank between two of them and no blank
\* before the first or behind the last
IsNormalised(name) ==
  /\ name # << >>
  /\ \A j \in DOMAIN name :
       name[j] = " " => (j > 1 /\ j < Len(name) /\ name[j + 1] # " ")

\* the row had the outcome updated in the run before this one
WasUpdatedBefore(email) ==
  \E k \in DOMAIN previous.processed_contacts :
    /\ previous.processed_contacts[k].email = email
    /\ previous.processed_contacts[k].status = "updated"

\* C26: a row with a normalised name that a run has updated is found correct
\* by the run after it: the outcome is already_correct and no update call is
\* sent for it.
C26_SyncConverges ==
  /\ (UpdateInProgress /\ IsNormalised(vendor_data[result.email]))
        => ~WasUpdatedBefore(result.email)
  /\ (RecordEnded /\ IsNormalised(vendor_data[LastOutcome.email])
         /\ WasUpdatedBefore(LastOutcome.email))
        => /\ LastOutcome.status = "already_correct"
           /\ LastOutcome.current_name = vendor_data[LastOutcome.email]
           /\ ~WriteIssued

C26_Witness ==
  /\ run = 2
  /\ RecordEnded
  /\ vendor_data[1] = << "A", " ", "B", " ", "A" >>
  /\ WasUpdatedBefore(1)
  /\ previous.processed_contacts[1].current_name = Unknown
  /\ LastOutcome.status = "already_correct"
====
